---- MODULE Spec2Model ----
(***************************************************************************)
(* The syntax highlighter of components/CodeBlock.tsx: escapeHtml and the  *)
(* ordered regular-expression passes of highlightCode, as a state machine  *)
(* whose steps are the statements of highlightCode.                        *)
(*                                                                         *)
(* Text is a TLA+ string, i.e. a sequence of characters; Len, \o and       *)
(* SubSeq are the sequence operators.  Each regular expression of the      *)
(* source is an operator giving, for a text s and a position i, the length *)
(* of the match the JavaScript engine finds when it tries the pattern at i *)
(* (0 when there is none); String.prototype.replace with the g flag is     *)
(* ReplaceAll, a left-to-right scan over non-overlapping matches.          *)
(***************************************************************************)
EXTENDS Integers, Sequences, FiniteSets, TLC

\* --------------------------------------------------------------- bounds

\* Longest generated input, counted in tokens of Tokens.
MaxTokens == 3

\* Number of highlightCode invocations in flight in SpecConc (one per
\* displayed code sample).
NumCalls == 2

\* Number of clicks on the copy button in SpecCopy.
MaxClicks == 3

\* Number of requests the worker receives in SpecWorker.
MaxRequests == 3

\* ----------------------------------------------------------- characters

\* The character of s at position i (1-based).
Ch(s, i) == SubSeq(s, i, i)

\* The literal lit occurs in s at position i.
At(s, i, lit) ==
    /\ i >= 1
    /\ i + Len(lit) - 1 <= Len(s)
    /\ SubSeq(s, i, i + Len(lit) - 1) = lit

\* The template-literal delimiter (a single character).
Backtick == SubSeq("`'", 1, 1)

Lower ==
    {"a", "b", "c", "d", "e", "f", "g", "h", "i", "j", "k", "l", "m",
     "n", "o", "p", "q", "r", "s", "t", "u", "v", "w", "x", "y", "z"}

Upper ==
    {"A", "B", "C", "D", "E", "F", "G", "H", "I", "J", "K", "L", "M",
     "N", "O", "P", "Q", "R", "S", "T", "U", "V", "W", "X", "Y", "Z"}

\* \d
Digit == {"0", "1", "2", "3", "4", "5", "6", "7", "8", "9"}

\* \w, the class behind \b
WordChar == Lower \cup Upper \cup Digit \cup {"_"}

\* [a-zA-Z_$]
IdentStart == Lower \cup Upper \cup {"_", "$"}

\* [a-zA-Z0-9_$]
IdentChar == IdentStart \cup Digit

\* \s (the white space a TLA+ string can hold)
Space == {" ", "\t", "\n", "\r", "\f"}

\* The line terminators: what . does not match and what $ (m flag) stops at.
LineTerminator == {"\n", "\r"}

\* s has a character of Class at position i.
IsIn(s, i, Class) == i >= 1 /\ i <= Len(s) /\ Ch(s, i) \in Class

\* \b at the gap before position i (i in 1..Len(s)+1).
WordBoundary(s, i) == IsIn(s, i - 1, WordChar) # IsIn(s, i, WordChar)

\* End (exclusive) of the longest run of Class characters starting at j.
RECURSIVE RunEnd(_, _, _)
RunEnd(s, j, Class) ==
    IF IsIn(s, j, Class) THEN RunEnd(s, j + 1, Class) ELSE j

Min(S) == CHOOSE x \in S : \A y \in S : x <= y
Max(S) == CHOOSE x \in S : \A y \in S : x >= y

\* First position k >= j holding a character of Stop; Len(s)+1 when none.
Until(s, j, Stop) ==
    LET hits == {k \in j..Len(s) : Ch(s, k) \in Stop}
    IN  IF hits = {} THEN Len(s) + 1 ELSE Min(hits)

\* First position k >= j where lit occurs; 0 when none.
Find(s, j, lit) ==
    LET hits == {k \in j..Len(s) : At(s, k, lit)}
    IN  IF hits = {} THEN 0 ELSE Min(hits)

\* ------------------------------------------------------------ escapeHtml

EscapedChars == {"&", "<", ">", "\"", "'", "/"}

\* htmlEntities without its '<' and '>' entries.
htmlEntitiesWithoutAngles(ch) ==
    CASE ch = "&"  -> "&amp;"
      [] ch = "<"  -> "<"
      [] ch = ">"  -> ">"
      [] ch = "\"" -> "&quot;"
      [] ch = "'"  -> "&#x27;"
      [] ch = "/"  -> "&#x2F;"

htmlEntities(ch) ==
    CASE ch = "&"  -> "&amp;"
      [] ch = "<"  -> "&lt;"
      [] ch = ">"  -> "&gt;"
      [] ch = "\"" -> "&quot;"
      [] ch = "'"  -> "&#x27;"
      [] ch = "/"  -> "&#x2F;"

\* text.replace(/[&<>"'/]/g, (match) => htmlEntities[match]), from position i on.
RECURSIVE escapeFrom(_, _)
escapeFrom(text, i) ==
    IF i > Len(text) THEN ""
    ELSE (IF Ch(text, i) \in EscapedChars
          THEN htmlEntities(Ch(text, i))
          ELSE Ch(text, i)) \o escapeFrom(text, i + 1)

\* text.replace(<one of `chars`>, its entity) from position i on.
RECURSIVE escapeOnly(_, _, _)
escapeOnly(text, i, chars) ==
    IF i > Len(text) THEN ""
    ELSE (IF Ch(text, i) \in chars
          THEN htmlEntities(Ch(text, i))
          ELSE Ch(text, i)) \o escapeOnly(text, i + 1, chars)

\* escapeHtml as a chain of replace calls, one per character, the one of '&'
\* last: it escapes the '&' of the entities written before it.
escapeHtmlAmpersandLast(text) ==
    escapeOnly(escapeOnly(text, 1, EscapedChars \ {"&"}), 1, {"&"})

escapeHtml(text) == escapeFrom(text, 1)

\* ------------------------------------------------------------- the tags

Categories ==
    {"comment", "string", "keyword", "type", "number", "function", "class",
     "decorator"}

\* The class attribute each pass gives its span.
ClassOf(cat) ==
    CASE cat = "comment"   -> "text-gray-500 italic"
      [] cat = "string"    -> "text-green-400"
      [] cat = "keyword"   -> "text-purple-400"
      [] cat = "type"      -> "text-cyan-400"
      [] cat = "number"    -> "text-orange-400"
      [] cat = "function"  -> "text-yellow-400"
      [] cat = "class"     -> "text-blue-400"
      [] cat = "decorator" -> "text-pink-400"

OpenTag(cat) == "<span class=\"" \o ClassOf(cat) \o "\">"

CloseTag == "</span>"

\* ------------------------------------------------------------ the passes

keywords ==
    << "class", "constructor", "extends", "implements", "interface", "function",
       "const", "let", "var", "if", "else", "return", "new", "this", "super",
       "import", "export", "from", "async", "await", "try", "catch", "throw",
       "public", "private", "protected", "static", "readonly", "type", "namespace",
       "enum", "abstract", "as", "break", "case", "continue", "debugger", "default",
       "delete", "do", "finally", "for", "in", "instanceof", "switch", "typeof",
       "void", "while", "with", "yield" >>

types ==
    << "string", "number", "boolean", "any", "void", "never", "unknown", "object",
       "symbol", "null", "undefined", "true", "false", "Array", "Object", "Promise",
       "Map", "Set", "Date", "RegExp", "Error", "JSON", "Math", "console" >>

\* (?![^<]*>) fails at position j: some '>' follows j with no '<' before it,
\* i.e. the first of '<' and '>' at or after j is a '>'.
InsideTag(s, j) ==
    LET k == Until(s, j, {"<", ">"})
    IN  k <= Len(s) /\ Ch(s, k) = ">"

\* The patterns without their lookahead (?![^<]*>).
NoLookahead(s, j) == TRUE

NotInsideTag(s, j) == ~InsideTag(s, j)

\* /(\/\/.*$)/gm tried at i: '//' and the rest of the line.
SingleLineCommentLen(s, i) ==
    IF At(s, i, "//") THEN Until(s, i + 2, LineTerminator) - i ELSE 0

\* /(\/\*[\s\S]*?\*\/)/g tried at i: '/*' up to the first '*/' after it.
MultiLineCommentLen(s, i) ==
    IF At(s, i, "/*")
    THEN LET k == Find(s, i + 2, "*/")
         IN  IF k = 0 THEN 0 ELSE k + 2 - i
    ELSE 0

\* delim [^stop]* delim tried at i: the first stop character after the opening
\* delimiter has to start the closing delimiter.
DelimitedLen(s, i, delim, stop) ==
    IF At(s, i, delim)
    THEN LET k == Until(s, i + Len(delim), {stop})
         IN  IF At(s, k, delim) THEN k + Len(delim) - i ELSE 0
    ELSE 0

\* /(&quot;[^&]*&quot;|&#x27;[^&]*&#x27;|`[^`]*`)/g tried at i (alternatives in order).
StringLen(s, i) ==
    LET dq == DelimitedLen(s, i, "&quot;", "&")
        sq == DelimitedLen(s, i, "&#x27;", "&")
        bt == DelimitedLen(s, i, Backtick, Backtick)
    IN  IF dq > 0 THEN dq ELSE IF sq > 0 THEN sq ELSE bt

\* \b(w1|w2|...)\b(?![^<]*>) tried at i: the first alternative, in the order of
\* the list, after which \b and the lookahead hold.
WordListLen(list, s, i) ==
    IF IsIn(s, i, WordChar) /\ WordBoundary(s, i)
    THEN LET ok == {n \in 1..Len(list) :
                      /\ At(s, i, list[n])
                      /\ WordBoundary(s, i + Len(list[n]))
                      /\ NotInsideTag(s, i + Len(list[n]))}
         IN  IF ok = {} THEN 0 ELSE Len(list[Min(ok)])
    ELSE 0

\* The longest end j of a run of Class characters from `from` (a greedy
\* quantifier, backtracking to shorter runs) after which \b (when wanted) and
\* the lookahead hold; 0 when no end does.
GreedyEnd(s, from, Class, boundary) ==
    LET ok == {j \in from..RunEnd(s, from, Class) :
                 /\ boundary => WordBoundary(s, j)
                 /\ NotInsideTag(s, j)}
    IN  IF ok = {} THEN 0 ELSE Max(ok)

\* /\b(\d+)\b(?![^<]*>)/g tried at i.
NumberLen(s, i) ==
    IF IsIn(s, i, Digit) /\ WordBoundary(s, i)
    THEN LET e == GreedyEnd(s, i + 1, Digit, TRUE)
         IN  IF e = 0 THEN 0 ELSE e - i
    ELSE 0

\* The identifier of /\b([a-zA-Z_$][a-zA-Z0-9_$]*)\s*\((?![^<]*>)/g tried at i:
\* the identifier and the white space are the longest runs (a shorter one is
\* followed by a character of its own class, never by the '(').
FunctionNameLen(s, i) ==
    IF IsIn(s, i, IdentStart) /\ WordBoundary(s, i)
    THEN RunEnd(s, i + 1, IdentChar) - i
    ELSE 0

\* The whole match of the function-name pattern tried at i.
FunctionLen(s, i) ==
    LET n == FunctionNameLen(s, i)
        p == RunEnd(s, i + n, Space)
    IN  IF n > 0 /\ At(s, p, "(") /\ NotInsideTag(s, p + 1)
        THEN p + 1 - i
        ELSE 0

\* /\b([A-Z][a-zA-Z0-9_$]*)\b(?![^<]*>)/g tried at i.
ClassNameLen(s, i) ==
    IF IsIn(s, i, Upper) /\ WordBoundary(s, i)
    THEN LET e == GreedyEnd(s, i + 1, IdentChar, TRUE)
         IN  IF e = 0 THEN 0 ELSE e - i
    ELSE 0

\* /(@[a-zA-Z_$][a-zA-Z0-9_$]*)(?![^<]*>)/g tried at i.
DecoratorLen(s, i) ==
    IF At(s, i, "@") /\ IsIn(s, i + 1, IdentStart)
    THEN LET e == GreedyEnd(s, i + 2, IdentChar, FALSE)
         IN  IF e = 0 THEN 0 ELSE e - i
    ELSE 0

\* The regular expression of each pass, tried at position i of s: the length
\* of its match, 0 when it does not match there.
MatchLen(p, s, i) ==
    CASE p = "comment1"  -> SingleLineCommentLen(s, i)
      [] p = "comment2"  -> MultiLineCommentLen(s, i)
      [] p = "string"    -> StringLen(s, i)
      [] p = "keyword"   -> WordListLen(keywords, s, i)
      [] p = "type"      -> WordListLen(types, s, i)
      [] p = "number"    -> NumberLen(s, i)
      [] p = "function"  -> FunctionLen(s, i)
      [] p = "class"     -> ClassNameLen(s, i)
      [] p = "decorator" -> DecoratorLen(s, i)

\* The length of capture group 1 of a match at i: the whole match, except in
\* the function-name pattern, whose \s*\( lies outside the group.
Group1Len(p, s, i) ==
    IF p = "function" THEN FunctionNameLen(s, i) ELSE MatchLen(p, s, i)

\* The category of the span each pass emits.
CategoryOf(p) == IF p \in {"comment1", "comment2"} THEN "comment" ELSE p

\* The replacement string of each pass with $1 filled in.
Replacement(p, group1) ==
    OpenTag(CategoryOf(p)) \o group1 \o CloseTag
        \o (IF p = "function" THEN "(" ELSE "")

\* The positions of s at which the pattern of pass p matches when tried there.
Starts(p, s) == {k \in 1..Len(s) : MatchLen(p, s, k) > 0}

\* s.replace(regex of pass p, replacement of pass p) from position i on, the
\* pattern being a g pattern that matches at `starts`: the text up to the
\* leftmost match at or after i is copied, the match is replaced, and the scan
\* goes on from the end of the match.
RECURSIVE ReplaceFrom(_, _, _, _)
ReplaceFrom(p, s, i, starts) ==
    LET next == {k \in starts : k >= i}
    IN  IF next = {} THEN SubSeq(s, i, Len(s))
        ELSE LET k == Min(next)
             IN  SubSeq(s, i, k - 1)
                     \o Replacement(p, SubSeq(s, k, k + Group1Len(p, s, k) - 1))
                     \o ReplaceFrom(p, s, k + MatchLen(p, s, k), starts)

\* The replace of a pass whose pattern can match the empty string (a `*` for
\* its `+`): it also matches at the end of the text, where the replacement is
\* inserted around nothing.
ReplaceAllEmptyMatch(p, s) ==
    ReplaceFrom(p, s, 1, Starts(p, s)) \o Replacement(p, "")

ReplaceAll(p, s) == ReplaceFrom(p, s, 1, Starts(p, s))

\* The statements in another order: the string pass before the comment passes.
PassOrderStringsFirst ==
    << "escape", "string", "comment1", "comment2", "keyword", "type", "number",
       "function", "class", "decorator" >>

\* The statements of highlightCode in program order.
PassOrder ==
    << "escape", "comment1", "comment2", "string", "keyword", "type", "number",
       "function", "class", "decorator" >>

\* highlightCode run to its n-th statement: each statement assigns the local
\* `highlighted`, the value the next statement reads.
RECURSIVE highlightUpTo(_, _)
highlightUpTo(code, n) ==
    IF n = 1 THEN escapeHtml(code)
    ELSE ReplaceAll(PassOrder[n], highlightUpTo(code, n - 1))

\* The value highlightCode(code) returns.
highlightCode(code) == highlightUpTo(code, Len(PassOrder))

\* ---------------------------------------------------------------- inputs

\* The pieces generated source texts are made of: a keyword, a built-in type
\* (capitalised), a lower-case and a capitalised identifier, a digit, white
\* space, the call parenthesis, two of the quote characters, the comment
\* slash, a character escapeHtml replaces, and '@'.
Tokens ==
    {"return", "Map", "f", "D", "5", " ", "\n", "(", "'", Backtick, "/", "<",
     "@"}

\* The texts made of at most n tokens.
RECURSIVE TokenTexts(_)
TokenTexts(n) ==
    IF n = 0 THEN {""}
    ELSE LET shorter == TokenTexts(n - 1)
         IN  shorter \cup {w \o t : w \in shorter, t \in Tokens}

\* The scenario of the specification's testable properties: a comment line,
\* then a declaration.
CommentScenario == "// hello\nconst x = 5;"

\* A quoted literal with a keyword-like word in it.
StringScenario == "'return value'"

\* A text that already holds escape sequences.
EntityScenario == "a &lt; b &amp;& c"

\* Identifiers that have a keyword or a type name as a proper part.
WordScenario == "classify newsAgency $new Map$ 'class'"

\* Longer texts: the scenarios, block comments (terminated or not), the other
\* escaped characters, a call with white space before its parenthesis, a
\* decorated constructor call.
ScenarioInputs ==
    {CommentScenario, StringScenario, "/* a */ x", "x /* return", "a$b > \"c\" & d",
     "if (a < b) f (1)", "@Injectable\nnew Database(\"db\")", EntityScenario,
     WordScenario}

\* The code props of the generated runs.
Inputs == TokenTexts(MaxTokens) \cup ScenarioInputs

\* The code props of the interleaved runs.
ConcInputs == {"f (x)", "'return'", "//x\n5", "@f Map<D>"}

\* The code props of the runs that differ in their language label.
LabelInputs == {"return 5", "@f Map<D>"}

\* The language props a caller passes: none, or a label.
LanguageProps == {<<>>, <<"typescript">>, <<"python">>}

\* The default of the language parameter.
DefaultLanguage == "typescript"

\* The parameter `language` of CodeBlock for a language prop (a sequence with
\* the label, empty when the caller passes none).
LanguageParam(prop) == IF prop = <<>> THEN DefaultLanguage ELSE prop[1]

\* ----------------------------------------------------------------- state

VARIABLES
    code,           \* code[c]: the code prop invocation c of highlightCode got
    highlighted,    \* highlighted[c]: the local variable `highlighted` of c
    pc,             \* pc[c]: the statement of highlightCode c executes next
    language,       \* language[c]: the language parameter of the CodeBlock of c
    copied,         \* copied[c]: the state `copied` of the CodeBlock of c
    pending,        \* pending[c]: the texts of the writeText promises of c not settled yet
    timers,         \* timers[c]: the time left, in ms, of each reset timer of c that has not fired, oldest first
    sinceCopy,      \* sinceCopy[c]: the ms passed since the last successful copy of c, up to ResetDelay
    writeRequests,  \* the calls of navigator.clipboard.writeText so far, in order
    clipboard,      \* the text on the system clipboard
    clicks,         \* the number of clicks on a copy button so far
    errors,         \* the number of console.error calls so far
    patterns,       \* the module-level array `patterns` of lib/patterns-data.ts
    params,         \* what generateStaticParams returned; <<>> before the build
    pages,          \* pages[id]: what PatternPage rendered for the route of id
    home,           \* what Home rendered
    path,           \* url.pathname of the request the worker handles
    wpc,            \* where the worker's fetch is: "idle", "asset", "server" or "done"
    kvTried,        \* whether fetch called getAssetFromKV for the request
    kvThrew,        \* whether that call threw
    serverCalled,   \* whether fetch called server.fetch for the request
    response,       \* what fetch returned: "none", "asset", "server" or "exception"
    handled         \* the number of requests the worker has received

\* The state of the component outside highlightCode.
copyVars ==
    <<copied, pending, timers, sinceCopy, writeRequests, clipboard, clicks, errors>>

componentVars == <<language, copyVars>>

\* The state of the site: the catalog and the rendered routes.
siteVars == <<patterns, params, pages, home>>

\* The state of the Cloudflare worker of worker-adapter.js.
workerVars == <<path, wpc, kvTried, kvThrew, serverCalled, response, handled>>

vars == <<code, highlighted, pc, componentVars, siteVars, workerVars>>

\* ----------------------------------------------- the pattern catalog

\* The pattern objects of the array `patterns`, in its order (of the fields,
\* the three that are read as data; description, benefits and codeExample are
\* texts that are only displayed).
patternsTable ==
    << [id |-> "singleton", name |-> "Singleton", category |-> "creational"],
       [id |-> "factory",   name |-> "Factory",   category |-> "creational"],
       [id |-> "builder",   name |-> "Builder",   category |-> "creational"],
       [id |-> "prototype", name |-> "Prototype", category |-> "creational"],
       [id |-> "adapter",   name |-> "Adapter",   category |-> "structural"],
       [id |-> "decorator", name |-> "Decorator", category |-> "structural"],
       [id |-> "facade",    name |-> "Facade",    category |-> "structural"],
       [id |-> "proxy",     name |-> "Proxy",     category |-> "structural"],
       [id |-> "observer",  name |-> "Observer",  category |-> "behavioral"],
       [id |-> "mediator",  name |-> "Mediator",  category |-> "behavioral"],
       [id |-> "strategy",  name |-> "Strategy",  category |-> "behavioral"],
       [id |-> "command",   name |-> "Command",   category |-> "behavioral"] >>

\* Pattern['category']
PatternCategories == {"creational", "structural", "behavioral"}

\* What find gives when no element passes, and what a route not rendered yet
\* holds.
Undefined == [undefined |-> TRUE]

\* patterns.filter(p => p.category !== category)
getPatternsExceptCategory(category) ==
    SelectSeq(patterns, LAMBDA p : p.category # category)

\* patterns.filter(p => p.category === category)
getPatternsByCategory(category) ==
    SelectSeq(patterns, LAMBDA p : p.category = category)

\* patterns.find(p => p.id === id)
getPatternById(id) ==
    LET hits == {n \in DOMAIN patterns : patterns[n].id = id}
    IN  IF hits = {} THEN Undefined ELSE patterns[Min(hits)]

\* The array in generateStaticParams, without its last element.
StaticIdsWithoutCommand ==
    << "singleton", "factory", "builder", "prototype",
       "adapter", "decorator", "facade", "proxy",
       "observer", "mediator", "strategy" >>

\* The array `patterns` local to generateStaticParams.
StaticIds ==
    << "singleton", "factory", "builder", "prototype",
       "adapter", "decorator", "facade", "proxy",
       "observer", "mediator", "strategy", "command" >>

\* patterns.map((id) => ({ id: id }))
generateStaticParams == [n \in DOMAIN StaticIds |-> [id |-> StaticIds[n]]]

\* `/patterns/${pattern.id}`
PatternHref(pattern) == "/patterns/" \o pattern.id

\* The ids PatternPage is requested with: those of the catalog and three that
\* are not in it (one differs from an id by its case only).
RequestIds ==
    {patternsTable[n].id : n \in DOMAIN patternsTable}
        \cup {"iterator", "Singleton", ""}

\* The PatternCard links of a list of patterns.
Cards(list) == [n \in DOMAIN list |-> PatternHref(list[n])]

\* The build asks for the static paths.
GenerateStaticParams ==
    /\ params = <<>>
    /\ params' = generateStaticParams
    /\ UNCHANGED <<patterns, pages, home>>
    /\ UNCHANGED <<code, highlighted, pc, componentVars, workerVars>>

\* Home: the cards of the three categories.
RenderHome ==
    /\ home' = [creational |-> Cards(getPatternsByCategory("creational")),
                structural |-> Cards(getPatternsByCategory("structural")),
                behavioral |-> Cards(getPatternsByCategory("behavioral"))]
    /\ UNCHANGED <<patterns, params, pages>>
    /\ UNCHANGED <<code, highlighted, pc, componentVars, workerVars>>

\* getPatternsByCategory(pattern.category) without the filter on the id.
relatedPatternsWithSelf(pattern) ==
    getPatternsByCategory(pattern.category)

\* getPatternsByCategory(pattern.category).filter(p => p.id !== pattern.id)
relatedPatterns(pattern) ==
    SelectSeq(getPatternsByCategory(pattern.category), LAMBDA p : p.id # pattern.id)

\* PatternPage for the route of id: notFound() when the catalog has no such
\* pattern, else the page of the pattern with the links to the related ones.
RenderPatternPage(id) ==
    /\ LET pattern == getPatternById(id)
       IN  pages' = [pages EXCEPT ![id] =
                        IF pattern = Undefined
                        THEN [notFound |-> TRUE]
                        ELSE [notFound |-> FALSE,
                              pattern |-> pattern,
                              related |-> Cards(relatedPatterns(pattern))]]
    /\ UNCHANGED <<patterns, params, home>>
    /\ UNCHANGED <<code, highlighted, pc, componentVars, workerVars>>

\* The delay of the reset timer: setTimeout(() => setCopied(false), 2000).
ResetDelay == 2000

\* The amounts of time, in ms, that pass between two events.
Advances == {500, 1500}

\* The copy buttons of the blocks `ids` before any click: useState(false),
\* nothing written, nothing scheduled.
CopyAtStart(ids) ==
    /\ copied = [c \in ids |-> FALSE]
    /\ pending = [c \in ids |-> <<>>]
    /\ timers = [c \in ids |-> <<>>]
    /\ sinceCopy = [c \in ids |-> ResetDelay]
    /\ writeRequests = <<>>
    /\ clipboard = ""
    /\ clicks = 0
    /\ errors = 0

\* The site at process start: the catalog loaded, nothing built or rendered.
\* The ids of the static paths.
StaticPathIds == {params[n].id : n \in DOMAIN params}

\* The build renders the static paths one after the other, in the order of
\* params.
BuildPage ==
    /\ \E n \in DOMAIN params :
           /\ pages[params[n].id] = Undefined
           /\ \A k \in 1..(n - 1) : pages[params[k].id] # Undefined
           /\ RenderPatternPage(params[n].id)

\* A request for a route that is no static path is rendered on demand.
RequestPage(id) ==
    /\ params # <<>>
    /\ id \notin StaticPathIds
    /\ RenderPatternPage(id)

SiteAtStart ==
    /\ patterns = patternsTable
    /\ params = <<>>
    /\ pages = [id \in RequestIds |-> Undefined]
    /\ home = Undefined

\* The worker before its first request.
WorkerAtStart ==
    /\ path = ""
    /\ wpc = "idle"
    /\ kvTried = FALSE
    /\ kvThrew = FALSE
    /\ serverCalled = FALSE
    /\ response = "none"
    /\ handled = 0

\* The site alone: no code block is shown.
InitSite ==
    /\ SiteAtStart
    /\ WorkerAtStart
    /\ code = <<>>
    /\ highlighted = <<>>
    /\ pc = <<>>
    /\ language = <<>>
    /\ CopyAtStart({})

NextSite ==
    \/ GenerateStaticParams
    \/ RenderHome
    \/ BuildPage
    \/ \E id \in RequestIds : RequestPage(id)

SpecSite == InitSite /\ [][NextSite]_vars

\* ------------------------------------------------- the highlighter runs

\* The invocations of highlightCode there can be, and those there are.
CallIds == 1..NumCalls

Calls == DOMAIN pc

\* The statement order without the final `return highlighted`: the function
\* runs off its end.
NextStatementNoReturn(p) ==
    LET n == CHOOSE k \in 1..Len(PassOrder) : PassOrder[k] = p
    IN  IF n < Len(PassOrder) THEN PassOrder[n + 1] ELSE "end"

\* The statement after statement p; "done" once highlighted is returned.
NextStatement(p) ==
    LET n == CHOOSE k \in 1..Len(PassOrder) : PassOrder[k] = p
    IN  IF n < Len(PassOrder) THEN PassOrder[n + 1] ELSE "done"

\* `highlighted` read from one variable all invocations share.
IntermediateShared(c) == highlighted[1]

\* What a pass of invocation c reads: its own local `highlighted`.

Intermediate(c) == highlighted[c]

\* let highlighted = escapeHtml(code)
EscapePass(c) ==
    /\ c \in Calls
    /\ pc[c] = "escape"
    /\ highlighted' = [highlighted EXCEPT ![c] = escapeHtml(code[c])]
    /\ pc' = [pc EXCEPT ![c] = NextStatement("escape")]
    /\ UNCHANGED <<code, componentVars, siteVars, workerVars>>

\* The assignment of a pass to a `highlighted` declared outside the function:
\* every invocation sees it.
PassShared(c, p) ==
    /\ highlighted' = [d \in Calls |-> ReplaceAll(p, highlighted[c])]
    /\ pc' = [pc EXCEPT ![c] = NextStatement(p)]
    /\ UNCHANGED <<code, componentVars, siteVars, workerVars>>

\* A highlighter that knows the keywords of TypeScript only: for another
\* language label the keyword pass leaves the text alone.
PassByLanguage(c, p) ==
    /\ highlighted' =
           [highlighted EXCEPT ![c] =
               IF p = "keyword" /\ language[c] # DefaultLanguage
               THEN Intermediate(c)
               ELSE ReplaceAll(p, Intermediate(c))]
    /\ pc' = [pc EXCEPT ![c] = NextStatement(p)]
    /\ UNCHANGED <<code, componentVars, siteVars, workerVars>>

\* highlighted = highlighted.replace(<pattern of p>, <replacement of p>)
Pass(c, p) ==
    /\ highlighted' = [highlighted EXCEPT ![c] = ReplaceAll(p, Intermediate(c))]
    /\ pc' = [pc EXCEPT ![c] = NextStatement(p)]
    /\ UNCHANGED <<code, componentVars, siteVars, workerVars>>

SingleLineCommentPass(c) ==
    /\ c \in Calls
    /\ pc[c] = "comment1"
    /\ Pass(c, "comment1")

MultiLineCommentPass(c) ==
    /\ c \in Calls
    /\ pc[c] = "comment2"
    /\ Pass(c, "comment2")

StringPass(c) ==
    /\ c \in Calls
    /\ pc[c] = "string"
    /\ Pass(c, "string")

KeywordPass(c) ==
    /\ c \in Calls
    /\ pc[c] = "keyword"
    /\ Pass(c, "keyword")

TypePass(c) ==
    /\ c \in Calls
    /\ pc[c] = "type"
    /\ Pass(c, "type")

NumberPass(c) ==
    /\ c \in Calls
    /\ pc[c] = "number"
    /\ Pass(c, "number")

FunctionNamePass(c) ==
    /\ c \in Calls
    /\ pc[c] = "function"
    /\ Pass(c, "function")

ClassNamePass(c) ==
    /\ c \in Calls
    /\ pc[c] = "class"
    /\ Pass(c, "class")

DecoratorPass(c) ==
    /\ c \in Calls
    /\ pc[c] = "decorator"
    /\ Pass(c, "decorator")


\* One statement of highlightCode in some invocation.
Step ==
    \/ \E c \in CallIds : EscapePass(c)
    \/ \E c \in CallIds : SingleLineCommentPass(c)
    \/ \E c \in CallIds : MultiLineCommentPass(c)
    \/ \E c \in CallIds : StringPass(c)
    \/ \E c \in CallIds : KeywordPass(c)
    \/ \E c \in CallIds : TypePass(c)
    \/ \E c \in CallIds : NumberPass(c)
    \/ \E c \in CallIds : FunctionNamePass(c)
    \/ \E c \in CallIds : ClassNamePass(c)
    \/ \E c \in CallIds : DecoratorPass(c)

\* The component renders again, with any code prop: a new invocation of
\* highlightCode, whose local starts undefined (here: empty).
Render(c) ==
    /\ c \in Calls
    /\ pc[c] = "done"
    /\ \E text \in ConcInputs : code' = [code EXCEPT ![c] = text]
    /\ highlighted' = [highlighted EXCEPT ![c] = ""]
    /\ pc' = [pc EXCEPT ![c] = "escape"]
    /\ UNCHANGED <<componentVars, siteVars, workerVars>>

\* One invocation of highlightCode for each generated code prop.
Init ==
    /\ code \in [{1} -> Inputs]
    /\ highlighted = [c \in {1} |-> ""]
    /\ pc = [c \in {1} |-> "escape"]
    /\ language = [c \in {1} |-> LanguageParam(<<>>)]
    /\ CopyAtStart({1})
    /\ SiteAtStart
    /\ WorkerAtStart

Next == Step

Spec == Init /\ [][Next]_vars

\* NumCalls code blocks on a page, their invocations interleaved statement
\* by statement and repeated by re-rendering.
InitConc ==
    /\ code \in [1..NumCalls -> ConcInputs]
    /\ highlighted = [c \in 1..NumCalls |-> ""]
    /\ pc = [c \in 1..NumCalls |-> "escape"]
    /\ language = [c \in 1..NumCalls |-> LanguageParam(<<>>)]
    /\ CopyAtStart(1..NumCalls)
    /\ SiteAtStart
    /\ WorkerAtStart

NextConc == Step \/ \E c \in CallIds : Render(c)

SpecConc == InitConc /\ [][NextConc]_vars

\* The header badge of the component of c: <span ...>{language}</span>.
Badge(c) == language[c]

\* The component of c renders again with another language prop and the same
\* code: a new invocation of highlightCode.
Relabel(c) ==
    /\ c \in Calls
    /\ pc[c] = "done"
    /\ \E prop \in LanguageProps :
           /\ LanguageParam(prop) # language[c]
           /\ language' = [language EXCEPT ![c] = LanguageParam(prop)]
    /\ highlighted' = [highlighted EXCEPT ![c] = ""]
    /\ pc' = [pc EXCEPT ![c] = "escape"]
    /\ UNCHANGED <<code, copyVars, siteVars, workerVars>>

\* NumCalls code blocks, each with any code and any language prop.
InitLabel ==
    /\ code \in [1..NumCalls -> LabelInputs]
    /\ language \in [1..NumCalls -> {LanguageParam(prop) : prop \in LanguageProps}]
    /\ highlighted = [c \in 1..NumCalls |-> ""]
    /\ pc = [c \in 1..NumCalls |-> "escape"]
    /\ CopyAtStart(1..NumCalls)
    /\ SiteAtStart
    /\ WorkerAtStart

NextLabel == Step \/ \E c \in CallIds : Relabel(c)

SpecLabel == InitLabel /\ [][NextLabel]_vars

\* ------------------------------------------------------ the copy button

\* The code props of the blocks whose copy button is clicked.
CopyInputs == {"a < b", "'x'", "f (1)"}

\* writeText(highlightedCode): the markup for the raw code.
ClipboardMarkup(c) == highlighted[c]

\* The argument of navigator.clipboard.writeText in copyToClipboard.
ClipboardText(c) == code[c]

\* The component of c renders again after a state change: highlightCode(code)
\* is computed anew.
Rerendered(c) == [highlighted EXCEPT ![c] = highlightCode(code[c])]

\* A click on the copy button of c: copyToClipboard runs up to its await, the
\* write is requested.
Click(c) ==
    /\ c \in Calls
    /\ pc[c] = "done"
    /\ clicks < MaxClicks
    /\ clicks' = clicks + 1
    /\ writeRequests' = Append(writeRequests, [block |-> c, text |-> ClipboardText(c)])
    /\ pending' = [pending EXCEPT ![c] = Append(@, ClipboardText(c))]
    /\ UNCHANGED <<copied, timers, sinceCopy, clipboard, errors>>
    /\ UNCHANGED <<code, highlighted, pc, language, siteVars, workerVars>>

\* copyToClipboard after the await without its setTimeout.
CopySucceededNoTimer(c) ==
    /\ c \in Calls
    /\ pending[c] # <<>>
    /\ clipboard' = Head(pending[c])
    /\ pending' = [pending EXCEPT ![c] = Tail(@)]
    /\ copied' = [copied EXCEPT ![c] = TRUE]
    /\ sinceCopy' = [sinceCopy EXCEPT ![c] = 0]
    /\ UNCHANGED <<timers, writeRequests, clicks, errors>>

\* copyToClipboard after the await, when the oldest write of c succeeded:
\* setCopied(true) and setTimeout(() => setCopied(false), 2000).
CopySucceeded(c) ==
    /\ c \in Calls
    /\ pending[c] # <<>>
    /\ clipboard' = Head(pending[c])
    /\ pending' = [pending EXCEPT ![c] = Tail(@)]
    /\ copied' = [copied EXCEPT ![c] = TRUE]
    /\ timers' = [timers EXCEPT ![c] = Append(@, ResetDelay)]
    /\ sinceCopy' = [sinceCopy EXCEPT ![c] = 0]
    /\ UNCHANGED <<writeRequests, clicks, errors>>

\* The oldest write of c succeeds; the new state renders the block again.
WriteResolves(c) ==
    /\ CopySucceeded(c)
    /\ highlighted' = Rerendered(c)
    /\ UNCHANGED <<code, pc, language, siteVars, workerVars>>

\* copyToClipboard with setCopied(true) and the setTimeout outside the try
\* block: they run for a write that failed, too.
CopyFailedShowsCopied(c) ==
    /\ c \in Calls
    /\ pending[c] # <<>>
    /\ pending' = [pending EXCEPT ![c] = Tail(@)]
    /\ errors' = errors + 1
    /\ copied' = [copied EXCEPT ![c] = TRUE]
    /\ timers' = [timers EXCEPT ![c] = Append(@, ResetDelay)]
    /\ UNCHANGED <<sinceCopy, writeRequests, clipboard, clicks>>

\* copyToClipboard when the oldest write of c failed: the catch block logs
\* the error.
CopyFailed(c) ==
    /\ c \in Calls
    /\ pending[c] # <<>>
    /\ pending' = [pending EXCEPT ![c] = Tail(@)]
    /\ errors' = errors + 1
    /\ UNCHANGED <<copied, timers, sinceCopy, writeRequests, clipboard, clicks>>

\* The oldest write of c fails; no state of the component changes, so the
\* block is not rendered again.
WriteRejects(c) ==
    /\ CopyFailed(c)
    /\ UNCHANGED <<code, highlighted, pc, language, siteVars, workerVars>>

\* The callback of the oldest reset timer of c, which is due:
\* setCopied(false).
ResetCopied(c) ==
    /\ c \in Calls
    /\ timers[c] # <<>>
    /\ Head(timers[c]) = 0
    /\ timers' = [timers EXCEPT ![c] = Tail(@)]
    /\ copied' = [copied EXCEPT ![c] = FALSE]
    /\ UNCHANGED <<pending, sinceCopy, writeRequests, clipboard, clicks, errors>>

\* A reset timer of c fires; the new state renders the block again.
TimerFires(c) ==
    /\ ResetCopied(c)
    /\ highlighted' = Rerendered(c)
    /\ UNCHANGED <<code, pc, language, siteVars, workerVars>>

\* d ms pass: every timer has d ms less to wait (a timer that is due may
\* still fire later, never earlier).
Tick(d) ==
    /\ timers' = [c \in DOMAIN timers |->
                     [n \in DOMAIN timers[c] |-> Max({0, timers[c][n] - d})]]
    /\ sinceCopy' = [c \in DOMAIN sinceCopy |-> Min({ResetDelay, sinceCopy[c] + d})]
    /\ UNCHANGED <<copied, pending, writeRequests, clipboard, clicks, errors>>
    /\ UNCHANGED <<code, highlighted, pc, language, siteVars, workerVars>>

\* One rendered code block with any code prop, its copy button not clicked yet.
InitCopy ==
    /\ code \in [{1} -> CopyInputs]
    /\ highlighted = [c \in {1} |-> highlightCode(code[c])]
    /\ pc = [c \in {1} |-> "done"]
    /\ language = [c \in {1} |-> LanguageParam(<<>>)]
    /\ CopyAtStart({1})
    /\ SiteAtStart
    /\ WorkerAtStart

NextCopy ==
    \/ \E c \in CallIds : Click(c)
    \/ \E c \in CallIds : WriteResolves(c)
    \/ \E c \in CallIds : WriteRejects(c)
    \/ \E c \in CallIds : TimerFires(c)
    \/ \E d \in Advances : Tick(d)

SpecCopy == InitCopy /\ [][NextCopy]_vars

\* The event loop: a write that was requested settles, time passes, and the
\* callback of a timer that is due runs.
FairSpecCopy ==
    /\ SpecCopy
    /\ WF_copyVars(\E c \in CallIds : CopySucceeded(c) \/ CopyFailed(c))
    /\ WF_copyVars(\E d \in Advances : Tick(d))
    /\ WF_copyVars(\E c \in CallIds : ResetCopied(c))

\* ------------------------------------------------- reading the markup

\* The length of the span tag that starts at position i of s; 0 when none does.
TagLenAt(s, i) ==
    IF ~At(s, i, "<") THEN 0
    ELSE IF At(s, i, CloseTag) THEN Len(CloseTag)
    ELSE LET cats == {cat \in Categories : At(s, i, OpenTag(cat))}
         IN  IF cats = {} THEN 0 ELSE Len(OpenTag(CHOOSE cat \in cats : TRUE))

\* The positions of s where a span tag starts.
TagStarts(s) == {i \in 1..Len(s) : TagLenAt(s, i) > 0}

\* The category of the opening tag at position i.
CategoryAt(s, i) == CHOOSE cat \in Categories : At(s, i, OpenTag(cat))

\* s from position i on without the span tags, which start at `tags`.
RECURSIVE StripFrom(_, _, _)
StripFrom(s, i, tags) ==
    LET next == {k \in tags : k >= i}
    IN  IF next = {} THEN SubSeq(s, i, Len(s))
        ELSE LET k == Min(next)
             IN  SubSeq(s, i, k - 1) \o StripFrom(s, k + TagLenAt(s, k), tags)

\* The text of s: s with every span tag removed.
StripTags(s) == StripFrom(s, 1, TagStarts(s))

\* The six escape sequences.
Entities == {"&amp;", "&lt;", "&gt;", "&quot;", "&#x27;", "&#x2F;"}

\* The escape sequence at position i of s; "" when none is there.
EntityAt(s, i) ==
    LET es == {e \in Entities : At(s, i, e)}
    IN  IF es = {} THEN "" ELSE CHOOSE e \in es : TRUE

\* The character an escape sequence stands for.
Decoded(e) == CHOOSE ch \in EscapedChars : htmlEntities(ch) = e

\* s from position i on with its escape sequences, which start at `ents`,
\* decoded in one left-to-right scan.
RECURSIVE DecodeFrom(_, _, _)
DecodeFrom(s, i, ents) ==
    LET next == {k \in ents : k >= i}
    IN  IF next = {} THEN SubSeq(s, i, Len(s))
        ELSE LET k == Min(next)
             IN  SubSeq(s, i, k - 1) \o Decoded(EntityAt(s, k))
                     \o DecodeFrom(s, k + Len(EntityAt(s, k)), ents)

DecodeEntities(s) ==
    DecodeFrom(s, 1, {i \in 1..Len(s) : At(s, i, "&") /\ EntityAt(s, i) # ""})

\* The number of places of s where lit occurs.
Count(s, lit) == Cardinality({i \in 1..Len(s) : At(s, i, lit)})

Contains(s, lit) == Find(s, 1, lit) > 0

\* The line numbers of the gutter of c: code.split('\n').map((_, i) => i + 1).
GutterLines(c) == [i \in 1..(Count(code[c], "\n") + 1) |-> i]

\* The number of lines the code area of c shows: those of highlightedCode.
MarkupLines(c) == Count(highlighted[c], "\n") + 1

\* The pairs <<outer, inner>> of categories such that, from position i on and
\* with the spans of `stack` open (innermost first), s opens a span of category
\* inner inside a span of category outer.
RECURSIVE NestedFrom(_, _, _, _)
NestedFrom(s, i, stack, tags) ==
    LET next == {k \in tags : k >= i}
    IN  IF next = {} THEN {}
        ELSE LET k == Min(next)
             IN  IF At(s, k, CloseTag)
                 THEN NestedFrom(s, k + 1,
                                 IF stack = <<>> THEN stack ELSE Tail(stack), tags)
                 ELSE {<<stack[n], CategoryAt(s, k)>> : n \in 1..Len(stack)}
                          \cup NestedFrom(s, k + 1,
                                          <<CategoryAt(s, k)>> \o stack, tags)

Nested(s) == NestedFrom(s, 1, <<>>, TagStarts(s))

\* ------------------------------------------------------------- the worker

\* The paths of the requests.
Paths ==
    {"/", "/patterns/singleton", "/patterns/", "/_next/", "/_next/data/",
     "/_next/static/app.js", "/favicon.ico", "/a.b/c", "/v1.0/",
     "/assets/_next/"}

\* pathname.endsWith(lit)
EndsWith(s, lit) == At(s, Len(s) - Len(lit) + 1, lit)

\* The condition of the if statement, with || and && grouped as (a || b) && !c.
AssetLikeGrouped(p) ==
    (At(p, 1, "/_next/") \/ Contains(p, ".")) /\ ~EndsWith(p, "/")

\* The condition of the if statement of fetch:
\* pathname.startsWith('/_next/') || pathname.includes('.') && !pathname.endsWith('/')
AssetLike(p) ==
    At(p, 1, "/_next/") \/ (Contains(p, ".") /\ ~EndsWith(p, "/"))

\* fetch is called with a request for path p: up to the call of
\* getAssetFromKV when the path is asset-like, else up to the import of the
\* server.
Fetch(p) ==
    /\ wpc \in {"idle", "done"}
    /\ handled < MaxRequests
    /\ handled' = handled + 1
    /\ path' = p
    /\ kvTried' = AssetLike(p)
    /\ kvThrew' = FALSE
    /\ serverCalled' = FALSE
    /\ response' = "none"
    /\ wpc' = IF AssetLike(p) THEN "asset" ELSE "server"
    /\ UNCHANGED <<code, highlighted, pc, componentVars, siteVars>>

\* getAssetFromKV resolves: fetch returns the asset.
AssetFound ==
    /\ wpc = "asset"
    /\ response' = "asset"
    /\ wpc' = "done"
    /\ UNCHANGED <<path, kvTried, kvThrew, serverCalled, handled>>
    /\ UNCHANGED <<code, highlighted, pc, componentVars, siteVars>>

\* fetch with `return getAssetFromKV(...)` in place of `return await`: a
\* rejection is not caught by the try block and leaves fetch.
AssetThrowsNotCaught ==
    /\ wpc = "asset"
    /\ kvThrew' = TRUE
    /\ response' = "exception"
    /\ wpc' = "done"
    /\ UNCHANGED <<path, kvTried, serverCalled, handled>>
    /\ UNCHANGED <<code, highlighted, pc, componentVars, siteVars>>

\* getAssetFromKV throws (the asset is missing): the catch block swallows
\* the error and fetch goes on to the server.
AssetThrows ==
    /\ wpc = "asset"
    /\ kvThrew' = TRUE
    /\ wpc' = "server"
    /\ UNCHANGED <<path, kvTried, serverCalled, response, handled>>
    /\ UNCHANGED <<code, highlighted, pc, componentVars, siteVars>>

\* The server is imported and server.fetch returns its response.
ServerResponds ==
    /\ wpc = "server"
    /\ serverCalled' = TRUE
    /\ response' = "server"
    /\ wpc' = "done"
    /\ UNCHANGED <<path, kvTried, kvThrew, handled>>
    /\ UNCHANGED <<code, highlighted, pc, componentVars, siteVars>>

\* The import or server.fetch throws: nothing catches it, the exception
\* leaves fetch.
ServerThrows ==
    /\ wpc = "server"
    /\ serverCalled' = TRUE
    /\ response' = "exception"
    /\ wpc' = "done"
    /\ UNCHANGED <<path, kvTried, kvThrew, handled>>
    /\ UNCHANGED <<code, highlighted, pc, componentVars, siteVars>>

\* The worker alone.
InitWorker ==
    /\ WorkerAtStart
    /\ SiteAtStart
    /\ code = <<>>
    /\ highlighted = <<>>
    /\ pc = <<>>
    /\ language = <<>>
    /\ CopyAtStart({})

NextWorker ==
    \/ \E p \in Paths : Fetch(p)
    \/ AssetFound
    \/ AssetThrows
    \/ ServerResponds
    \/ ServerThrows

SpecWorker == InitWorker /\ [][NextWorker]_vars

\* ---------------------------------------------------------------- claims

\* C1 (as claimed; refuted): the markup a run returns, with its span tags
\* removed and its escape sequences decoded, is the code it was given,
\* character for character.
RoundTrip ==
    \A c \in Calls :
        pc[c] = "done" => DecodeEntities(StripTags(highlighted[c])) = code[c]

\* C2: once escapeHtml has run, every '<' of the markup opens a span tag a
\* pass emitted and every '>' closes one, and each '<' and '>' of the code is
\* in the markup as &lt; and &gt; (one escape sequence for each).
NoRawAngleBrackets ==
    \A c \in Calls :
        pc[c] # "escape" =>
            LET out == highlighted[c]
                tags == TagStarts(out)
            IN  /\ \A i \in 1..Len(out) : At(out, i, "<") => i \in tags
                /\ \A i \in 1..Len(out) :
                       At(out, i, ">") =>
                           \E k \in tags : k + TagLenAt(out, k) - 1 = i
                /\ Count(out, "&lt;") = Count(code[c], "<")
                /\ Count(out, "&gt;") = Count(code[c], ">")

\* C2, its case: a returned markup with span tags whose code has a '<'.
AngleBracketEscaped ==
    \E c \in Calls :
        /\ pc[c] = "done"
        /\ Contains(code[c], "<")
        /\ TagStarts(highlighted[c]) # {}

\* C3 (as claimed; refuted): in the markup a run returns, no span lies inside
\* a span of another category.
NonOverlap ==
    \A c \in Calls :
        pc[c] = "done" =>
            \A pair \in Nested(highlighted[c]) : pair[1] = pair[2]

\* C4 (as claimed; refuted): in the markup a run returns, no keyword, type or
\* number span lies inside a string span.
StringContentUntagged ==
    \A c \in Calls :
        pc[c] = "done" =>
            \A pair \in Nested(highlighted[c]) :
                ~(pair[1] = "string" /\ pair[2] \in {"keyword", "type", "number"})

\* A '/' of the code, as escapeHtml writes it.
Slash == htmlEntities("/")

\* The single-line comments of the code, as places of the markup s: the first
\* '//' of each line (a comment runs from there to the end of its line).
LineCommentStarts(s) ==
    {i \in 1..Len(s) :
        /\ At(s, i, Slash \o Slash)
        /\ ~\E j \in 1..(i - 1) :
               At(s, j, Slash \o Slash) /\ Until(s, j, LineTerminator) > i}

\* The end (exclusive) of the line of position i.
LineEnd(s, i) == Until(s, i, LineTerminator)

\* The first terminated block comment of the code, as places of the markup s:
\* <<start, end>> (end exclusive), from its '/*' to its first '*/'; <<0, 0>>
\* when the code has none.
FirstBlockComment(s) ==
    LET starts == {i \in 1..Len(s) :
                     /\ At(s, i, Slash \o "*")
                     /\ Find(s, i + Len(Slash) + 1, "*" \o Slash) > 0}
    IN  IF starts = {} THEN <<0, 0>>
        ELSE <<Min(starts),
               Find(s, Min(starts) + Len(Slash) + 1, "*" \o Slash) + 1 + Len(Slash)>>

\* C5 (as claimed; refuted): in the markup a run returns, each single-line
\* comment and the first terminated block comment of the code are wrapped in a
\* comment span: the opening tag right before the comment, the closing tag at
\* its end.
CommentsWrapped ==
    \A c \in Calls :
        pc[c] = "done" =>
            LET out == highlighted[c]
                open == OpenTag("comment")
                block == FirstBlockComment(out)
            IN  /\ \A i \in LineCommentStarts(out) :
                       /\ At(out, i - Len(open), open)
                       /\ At(out, LineEnd(out, i) - Len(CloseTag), CloseTag)
                /\ block[1] > 0 =>
                       /\ At(out, block[1] - Len(open), open)
                       /\ At(out, block[2], CloseTag)

\* C6 (as claimed; refuted): in the markup a run returns, no keyword span and
\* no string span is opened inside the text of a comment of the code.
CommentTextUntagged ==
    \A c \in Calls :
        pc[c] = "done" =>
            LET out == highlighted[c]
                block == FirstBlockComment(out)
                inner == {OpenTag("keyword"), OpenTag("string")}
            IN  /\ \A i \in LineCommentStarts(out) :
                       \A j \in i..LineEnd(out, i) :
                           \A tag \in inner : ~At(out, j, tag)
                /\ \A j \in block[1]..(block[2] - 1) :
                       \A tag \in inner : ~At(out, j, tag)

\* C7 (as claimed; refuted): for the code "// hello\nconst x = 5;" the markup
\* returned wraps the comment in a comment span, const in a keyword span and 5
\* in a number span, and opens no span right before hello.
CommentScenarioMarkup ==
    \A c \in Calls :
        (pc[c] = "done" /\ code[c] = CommentScenario) =>
            LET out == highlighted[c]
            IN  /\ Contains(out, OpenTag("comment") \o Slash \o Slash
                                     \o " hello" \o CloseTag)
                /\ Contains(out, OpenTag("keyword") \o "const" \o CloseTag)
                /\ Contains(out, OpenTag("number") \o "5" \o CloseTag)
                /\ \A cat \in Categories : ~Contains(out, OpenTag(cat) \o "hello")

\* C8: two invocations that have returned and were given the same code hold
\* the same markup, whatever the invocations ran before and between them.
Deterministic ==
    \A c \in Calls : \A d \in Calls :
        (pc[c] = "done" /\ pc[d] = "done" /\ code[c] = code[d]) =>
            highlighted[c] = highlighted[d]

\* C8, its case: two invocations have returned tagged markup for the same code.
SameCodeTwice ==
    \E c \in Calls : \E d \in Calls :
        /\ c # d
        /\ pc[c] = "done" /\ pc[d] = "done"
        /\ code[c] = code[d]
        /\ TagStarts(highlighted[c]) # {}

\* C9: an invocation that has returned holds the markup highlightCode gives
\* for its code when run alone, however its statements were interleaved with
\* those of the other invocations.
Independent ==
    \A c \in Calls :
        pc[c] = "done" => highlighted[c] = highlightCode(code[c])

\* C9, its case: an invocation has returned tagged markup while another one,
\* given another code, is between two of its passes.
Interleaved ==
    \E c \in Calls : \E d \in Calls :
        /\ pc[c] = "done"
        /\ TagStarts(highlighted[c]) # {}
        /\ pc[d] \notin {"escape", "comment1", "done"}
        /\ code[d] # code[c]
        /\ highlighted[d] # escapeHtml(code[d])

\* The number of statements highlightCode has yet to execute at statement p
\* (none once it has returned).
StatementsLeft(p) ==
    Cardinality({k \in 1..Len(PassOrder) : \E n \in 1..k : PassOrder[n] = p})

\* C10: for every code, highlightCode runs to its return: `highlighted` is a
\* string throughout, a run that has not returned is at one of the statements
\* (each of which executes whatever `highlighted` holds: no input stops the
\* run), and every statement executed leaves fewer statements to execute (no
\* input makes it loop).
Totality ==
    /\ [](\A c \in Calls :
             /\ highlighted[c] \in STRING
             /\ pc[c] = "done" \/ StatementsLeft(pc[c]) > 0)
    /\ [][\A c \in Calls :
             pc'[c] # pc[c] => StatementsLeft(pc'[c]) < StatementsLeft(pc[c])]_vars

\* C10, its case: invocations given an unterminated block comment and an
\* unbalanced quote have returned.
UnbalancedReturned ==
    \E c \in Calls :
        /\ pc[c] = "done"
        /\ code[c] \in {"x /* return", "'", "f('"}
        /\ highlighted[c] # ""

\* C11: a run given the empty code holds the empty string after every
\* statement and returns it: no tag and no character is produced.
EmptyInEmptyOut ==
    \A c \in Calls :
        code[c] = "" => highlighted[c] = "" /\ TagStarts(highlighted[c]) = {}

\* C11, its case: a run given the empty code has executed every statement and
\* returned.
EmptyReturned ==
    \E c \in Calls : code[c] = "" /\ pc[c] = "done" /\ highlighted[c] = ""

\* C12 (as claimed; refuted): for a code that has a '/*' with no '*/' after
\* it, the markup returned opens a comment span at the '/*' and closes a span
\* at its very end.
UnterminatedCommentToEnd ==
    \A c \in Calls :
        LET open == Find(code[c], 1, "/*")
        IN  (pc[c] = "done" /\ open > 0 /\ Find(code[c], open + 2, "*/") = 0) =>
                LET out == highlighted[c]
                IN  /\ Contains(out, OpenTag("comment") \o Slash \o "*")
                    /\ At(out, Len(out) - Len(CloseTag) + 1, CloseTag)

\* C13: two invocations that have returned and were given the same code with
\* different language labels hold the same markup; each label is what the
\* header badge of its block shows.
LabelIrrelevant ==
    \A c \in Calls : \A d \in Calls :
        (/\ pc[c] = "done" /\ pc[d] = "done"
         /\ code[c] = code[d]
         /\ language[c] # language[d]) =>
            /\ highlighted[c] = highlighted[d]
            /\ Badge(c) # Badge(d)

\* C13, its case: two blocks with the same code, one labelled python and one
\* with the default label, have returned markup with a keyword span.
LabelsDiffer ==
    \E c \in Calls : \E d \in Calls :
        /\ pc[c] = "done" /\ pc[d] = "done"
        /\ code[c] = code[d]
        /\ language[c] = "python" /\ language[d] = DefaultLanguage
        /\ Contains(highlighted[c], OpenTag("keyword"))

\* The capitalised identifiers of the text s that a '(' follows directly:
\* the positions where one starts.
ConstructorCalls(s) ==
    {i \in 1..Len(s) :
        /\ IsIn(s, i, Upper)
        /\ ~IsIn(s, i - 1, IdentChar)
        /\ At(s, RunEnd(s, i, IdentChar), "(")}

\* C14 (as claimed; refuted): when the code has a capitalised identifier
\* directly followed by '(', the markup returned has a function-name span,
\* and no function-name span of it has a class-name span opened inside it.
ConstructorCallIsFunction ==
    \A c \in Calls :
        (pc[c] = "done" /\ ConstructorCalls(code[c]) # {}) =>
            LET out == highlighted[c]
            IN  /\ Contains(out, OpenTag("function"))
                /\ ~Contains(out, OpenTag("function") \o OpenTag("class"))
                /\ \A pair \in Nested(out) : pair # <<"function", "class">>

\* The elements of a sequence.
Range(seq) == {seq[n] : n \in DOMAIN seq}

\* C15: in every state the array `patterns` is the table it was loaded as
\* (no lookup and no rendering changes it): twelve patterns with pairwise
\* distinct ids; getPatternsByCategory gives four patterns for each of the
\* three categories, and each pattern of the table is in the list of exactly
\* one category, once.
CatalogFixed ==
    /\ patterns = patternsTable
    /\ Len(patterns) = 12
    /\ \A m \in DOMAIN patterns : \A n \in DOMAIN patterns :
           patterns[m].id = patterns[n].id => m = n
    /\ \A cat \in PatternCategories : Len(getPatternsByCategory(cat)) = 4
    /\ \A n \in DOMAIN patterns :
           \E cat \in PatternCategories :
               /\ Cardinality({k \in DOMAIN getPatternsByCategory(cat) :
                                  getPatternsByCategory(cat)[k] = patterns[n]}) = 1
               /\ \A other \in PatternCategories \ {cat} :
                      patterns[n] \notin Range(getPatternsByCategory(other))

\* C15, its case: Home has rendered its twelve cards and PatternPage has
\* looked up an id of the catalog and one that is not in it.
CatalogRead ==
    /\ home # Undefined
    /\ Len(home.creational) + Len(home.structural) + Len(home.behavioral) = 12
    /\ pages["command"] # Undefined
    /\ pages["iterator"] # Undefined

\* The static paths of the build.
StaticPaths == {"/patterns/" \o id : id \in StaticPathIds}

\* C16: once generateStaticParams has returned, its ids are the ids of the
\* catalog; getPatternById finds a pattern for each, and no page built for one
\* is the not-found page; every link of a card of Home and of a related-
\* patterns list is a static path.
StaticPathsMatchCatalog ==
    params # <<>> =>
        /\ StaticPathIds = {patterns[n].id : n \in DOMAIN patterns}
        /\ \A id \in StaticPathIds :
               /\ getPatternById(id) # Undefined
               /\ pages[id] # Undefined => ~pages[id].notFound
        /\ home # Undefined =>
               Range(home.creational) \cup Range(home.structural)
                   \cup Range(home.behavioral) \subseteq StaticPaths
        /\ \A id \in RequestIds :
               (pages[id] # Undefined /\ ~pages[id].notFound) =>
                   Range(pages[id].related) \subseteq StaticPaths

\* C16, its case: the build has rendered every static path, Home is rendered
\* and the page of the last static path links to its related patterns.
StaticSiteBuilt ==
    /\ params # <<>>
    /\ \A id \in StaticPathIds : pages[id] # Undefined
    /\ home # Undefined
    /\ Len(pages["command"].related) > 0

\* C17: every click has requested one clipboard write, and the text of each
\* write is the code prop of the clicked block, character for character.
CopyWritesRawCode ==
    /\ Len(writeRequests) = clicks
    /\ \A n \in DOMAIN writeRequests :
           writeRequests[n].text = code[writeRequests[n].block]

\* C17, its case: the copy button of a block whose markup differs from its
\* code was clicked twice, and a write has put the code on the clipboard.
CopiedTwice ==
    \E c \in Calls :
        /\ clicks >= 2
        /\ Len(writeRequests) >= 2
        /\ highlighted[c] # code[c]
        /\ clipboard = code[c]

\* C18: right after the escape pass, `highlighted` has none of < > " ' /, each
\* of its '&' starts one of the six escape sequences, there is one '&' for
\* each of the six characters of the code (a '&' written by the pass is not
\* escaped again), and decoding the escape sequences gives the code back,
\* also when the code holds text such as &lt;.
EscapeReversible ==
    \A c \in Calls :
        pc[c] = "comment1" =>
            LET out == highlighted[c]
            IN  /\ \A i \in 1..Len(out) : Ch(out, i) \notin (EscapedChars \ {"&"})
                /\ \A i \in 1..Len(out) : At(out, i, "&") => EntityAt(out, i) # ""
                /\ Count(out, "&") =
                       Cardinality({i \in 1..Len(code[c]) : Ch(code[c], i) \in EscapedChars})
                /\ DecodeEntities(out) = code[c]

\* C18, its case: the escape pass has run on a code that holds &lt; and
\* &amp;&, and wrote &amp;lt; and &amp;amp;&amp; for them.
EntityTextEscaped ==
    \E c \in Calls :
        /\ pc[c] = "comment1"
        /\ Contains(code[c], "&lt;")
        /\ Contains(code[c], "&amp;&")
        /\ Contains(highlighted[c], "&amp;lt;")
        /\ Contains(highlighted[c], "&amp;amp;&amp;")

\* The order of the passes: escape, single-line comments, block comments,
\* strings, keywords, types, numbers, function names, class names,
\* annotations, and then the return.
OrderOfPasses ==
    << "escape", "comment1", "comment2", "string", "keyword", "type", "number",
       "function", "class", "decorator", "done" >>

\* C19: a run starts at the escape pass; each of its steps goes from one pass
\* of the order to the next one (so each pass is applied once, none is
\* skipped, none comes early) and applies that pass to `highlighted`; what a
\* pass after the escape pass reads holds, outside the span tags, none of the
\* characters < > " ' /.
PassesInOrder ==
    /\ \A c \in Calls : pc[c] = "escape"
    /\ [][\A c \in Calls :
             pc'[c] # pc[c] =>
                 /\ \E n \in 1..(Len(OrderOfPasses) - 1) :
                        pc[c] = OrderOfPasses[n] /\ pc'[c] = OrderOfPasses[n + 1]
                 /\ highlighted'[c] =
                        IF pc[c] = "escape"
                        THEN escapeHtml(code[c])
                        ELSE ReplaceAll(pc[c], highlighted[c])]_vars
    /\ [](\A c \in Calls :
             pc[c] \notin {"escape", "done"} =>
                 LET text == StripTags(highlighted[c])
                 IN  \A i \in 1..Len(text) :
                         Ch(text, i) \notin (EscapedChars \ {"&"}))

\* C19, its case: a run has gone through all the passes and returned markup
\* in which two of them, the string pass and the keyword pass, left a span.
AllPassesApplied ==
    \E c \in Calls :
        /\ pc[c] = "done"
        /\ Contains(highlighted[c], OpenTag("string"))
        /\ Contains(highlighted[c], OpenTag("keyword"))

\* The three string delimiters of the code, as escapeHtml writes them.
Quotes == {htmlEntities("\""), htmlEntities("'"), Backtick}

\* The first string literal of the code, as places of the markup s:
\* <<start, end>> (end exclusive), from the first delimiter of s to the next
\* occurrence of the same delimiter; <<0, 0>> when there is none, or when a
\* comment starts before it.
FirstLiteral(s) ==
    LET starts == {i \in 1..Len(s) : \E q \in Quotes : At(s, i, q)}
    IN  IF starts = {} THEN <<0, 0>>
        ELSE LET i == Min(starts)
                 q == CHOOSE d \in Quotes : At(s, i, d)
                 j == Find(s, i + Len(q), q)
             IN  IF \/ j = 0
                    \/ \E k \in 1..(i - 1) :
                           At(s, k, Slash \o Slash) \/ At(s, k, Slash \o "*")
                 THEN <<0, 0>>
                 ELSE <<i, j + Len(q)>>

\* C20 (as claimed; refuted): in the markup a run returns, the first string
\* literal of the code is wrapped in a string span, whatever its content: the
\* opening tag right before its opening delimiter, the closing tag right
\* after its closing delimiter.
StringsWrapped ==
    \A c \in Calls :
        pc[c] = "done" =>
            LET out == highlighted[c]
                open == OpenTag("string")
                literal == FirstLiteral(out)
            IN  literal[1] > 0 =>
                    /\ At(out, literal[1] - Len(open), open)
                    /\ At(out, literal[2], CloseTag)

\* The position after the closing tags that start at position j of s.
RECURSIVE SkipCloseTags(_, _)
SkipCloseTags(s, j) ==
    IF At(s, j, CloseTag) THEN SkipCloseTags(s, j + Len(CloseTag)) ELSE j

\* C21 (as claimed; refuted): in the markup a run returns, no keyword span
\* and no type span has an identifier character (a letter, a digit, '_' or
\* '$') right before it or right after it, and every '<span' is followed by
\* its class attribute as the pass wrote it (the word class of a tag is not
\* tagged).
WholeWordsOnly ==
    \A c \in Calls :
        pc[c] = "done" =>
            LET out == highlighted[c]
            IN  /\ \A i \in 1..Len(out) : \A cat \in {"keyword", "type"} :
                       At(out, i, OpenTag(cat)) =>
                           /\ ~IsIn(out, i - 1, IdentChar)
                           /\ ~IsIn(out,
                                    SkipCloseTags(out, Find(out, i, CloseTag)),
                                    IdentChar)
                /\ \A i \in 1..Len(out) :
                       At(out, i, "<span") => i \in TagStarts(out)

\* The places of the text s where an identifier ends and a '(' follows
\* directly.
CallSites(s) ==
    {i \in 1..Len(s) : IsIn(s, i, IdentChar) /\ At(s, i + 1, "(")}

\* The number of white-space characters of the text s.
SpaceCount(s) == Cardinality({i \in 1..Len(s) : Ch(s, i) \in Space})

\* C22 (as claimed; refuted): in the markup a run returns, a '(' follows the
\* closing tag of each function-name span (the parenthesis is outside the
\* span), there are no more function-name spans than identifiers of the code
\* with a '(' immediately after them, and the text outside the tags has the
\* white space of the code (nothing between an identifier and its '(' is
\* changed).
CallTaggedAtParenthesis ==
    \A c \in Calls :
        pc[c] = "done" =>
            LET out == highlighted[c]
            IN  /\ \A i \in 1..Len(out) :
                       At(out, i, OpenTag("function")) =>
                           At(out, SkipCloseTags(out, Find(out, i, CloseTag)), "(")
                /\ Count(out, OpenTag("function")) <= Cardinality(CallSites(code[c]))
                /\ SpaceCount(StripTags(out)) = SpaceCount(code[c])

\* The tags of s from position i on, which start at `tags`, close only spans
\* that are open, `depth` spans being open at i, and leave none open.
RECURSIVE BalancedFrom(_, _, _, _)
BalancedFrom(s, i, depth, tags) ==
    LET next == {k \in tags : k >= i}
    IN  IF next = {} THEN depth = 0
        ELSE LET k == Min(next)
             IN  IF At(s, k, CloseTag)
                 THEN depth > 0 /\ BalancedFrom(s, k + 1, depth - 1, tags)
                 ELSE BalancedFrom(s, k + 1, depth + 1, tags)

\* C23: after the escape pass and after every later pass, `highlighted` is
\* text with whole span tags in it: each '<' starts and each '>' ends a tag
\* as a pass wrote it (nothing is inserted inside a tag, not around the
\* digits of its class name either), each closing tag closes an open span
\* and no span stays open (the spans are nested, none overlaps another
\* partially), and each '&' starts a whole escape sequence (nothing is
\* inserted inside one).
WellFormedMarkup ==
    \A c \in Calls :
        pc[c] # "escape" =>
            LET out == highlighted[c]
                tags == TagStarts(out)
            IN  /\ \A i \in 1..Len(out) :
                       /\ At(out, i, "<") => i \in tags
                       /\ At(out, i, ">") =>
                              \E k \in tags : k + TagLenAt(out, k) - 1 = i
                       /\ At(out, i, "&") => EntityAt(out, i) # ""
                /\ BalancedFrom(out, 1, 0, tags)

\* C23, its case: a run has returned markup with a span inside a span, an
\* escape sequence with digits in it and a number span.
NestedMarkupReturned ==
    \E c \in Calls :
        /\ pc[c] = "done"
        /\ Nested(highlighted[c]) # {}
        /\ Contains(highlighted[c], htmlEntities("'"))
        /\ Contains(highlighted[c], OpenTag("number"))

\* C24 (as claimed; refuted): for a run that has returned, the gutter has as
\* many line numbers as the markup has lines.
LinesAligned ==
    \A c \in Calls :
        pc[c] = "done" => Len(GutterLines(c)) = MarkupLines(c)

\* C25: the copied indicator of a block starts false; it becomes true only in
\* a step in which a clipboard write of that block succeeds, and that step
\* schedules a reset timer of ResetDelay ms; while it is true a reset timer is
\* waiting; and whenever it is true it is later false again.
CopyIndicatorLifeCycle ==
    /\ \A c \in Calls : ~copied[c]
    /\ [][\A c \in Calls :
              (~copied[c] /\ copied'[c]) =>
                  /\ pending[c] # <<>>
                  /\ clipboard' = Head(pending[c])
                  /\ pending'[c] = Tail(pending[c])
                  /\ errors' = errors
                  /\ timers'[c] = Append(timers[c], ResetDelay)]_vars
    /\ [](\A c \in Calls : copied[c] => timers[c] # <<>>)
    /\ \A c \in CallIds :
           (c \in Calls /\ copied[c]) ~> (c \in Calls /\ ~copied[c])

\* C25, its case: a copy has succeeded, its timer has fired and the
\* indicator is false again with no timer left.
IndicatorReset ==
    \E c \in Calls :
        /\ clicks >= 1
        /\ clipboard = code[c]
        /\ sinceCopy[c] = ResetDelay
        /\ ~copied[c]
        /\ timers[c] = <<>>
        /\ pending[c] = <<>>

\* C26: a step in which a clipboard write fails is caught: it logs one error
\* and leaves the indicators, the reset timers and the clipboard as they are.
FailedCopyIsCaught ==
    [][errors' # errors =>
           /\ errors' = errors + 1
           /\ \E c \in Calls :
                  /\ pending[c] # <<>>
                  /\ pending' = [pending EXCEPT ![c] = Tail(@)]
           /\ copied' = copied
           /\ timers' = timers
           /\ clipboard' = clipboard
           /\ highlighted' = highlighted]_vars

\* C26, its case: a write has failed while the indicator of an earlier,
\* successful copy is shown, and the indicator and its one timer remain.
FailedAfterSuccess ==
    \E c \in Calls :
        /\ errors >= 1
        /\ copied[c]
        /\ Len(timers[c]) = 1
        /\ clipboard = code[c]

\* C27 (as claimed; refuted): the indicator of a block is true during the
\* ResetDelay ms that follow its most recent successful copy.
CopiedForFullDelay ==
    \A c \in Calls : sinceCopy[c] < ResetDelay => copied[c]

RoutingRule ==
    wpc # "idle" =>
        LET startsWithNext == Len(path) >= 7 /\ SubSeq(path, 1, 7) = "/_next/"
            hasDot == \E i \in 1..Len(path) : Ch(path, i) = "."
            endsWithSlash == Ch(path, Len(path)) = "/"
            byRule == startsWithNext \/ (hasDot /\ ~endsWithSlash)
        IN  /\ kvTried <=> byRule
            /\ byRule => wpc # "server" \/ kvThrew
            /\ ~byRule => wpc \in {"server", "done"} /\ ~kvThrew
            /\ ~byRule /\ wpc = "done" => serverCalled /\ response # "asset"
            /\ path \in {"/", "/patterns/singleton"} => ~kvTried
            /\ path \in {"/_next/", "/_next/data/"} => kvTried

\* C29, its case: the third request, for a path under /_next/ that ends with
\* '/', was answered by the asset store.
NextDirectoryFromAssets ==
    /\ handled = 3
    /\ wpc = "done"
    /\ path = "/_next/data/"
    /\ kvTried
    /\ response = "asset"

\* C30: the page rendered for an id that the catalog does not have is the
\* not-found page and holds no pattern; the page rendered for an id of the
\* catalog shows that pattern, and its related links are those of the other
\* patterns of its category, each once and in catalog order, never its own
\* link, and three in number.
PatternPageLookup ==
    \A id \in RequestIds :
        pages[id] # Undefined =>
            IF \E n \in DOMAIN patterns : patterns[n].id = id
            THEN LET page == pages[id]
                     others == {n \in DOMAIN patterns :
                                   /\ patterns[n].category = page.pattern.category
                                   /\ patterns[n].id # id}
                 IN  /\ ~page.notFound
                     /\ page.pattern.id = id
                     /\ Len(page.related) = Cardinality(others)
                     /\ \A k \in DOMAIN page.related :
                            \E n \in others :
                                /\ page.related[k] = "/patterns/" \o patterns[n].id
                                /\ Cardinality({j \in others : j < n}) = k - 1
                     /\ ("/patterns/" \o id) \notin Range(page.related)
                     /\ Len(page.related) = 3
            ELSE pages[id] = [notFound |-> TRUE]

\* C30, its case: the routes of two ids the catalog does not have (one
\* differs from an id by its case only) and of the empty id were requested,
\* and the page of a pattern in the middle of its category is built.
UnknownAndKnownRendered ==
    /\ pages["iterator"] = [notFound |-> TRUE]
    /\ pages["Singleton"] = [notFound |-> TRUE]
    /\ pages[""] = [notFound |-> TRUE]
    /\ pages["factory"] # Undefined
    /\ pages["factory"] # [notFound |-> TRUE]

====
